---- MODULE Spec2Model ----
(***************************************************************************)
(* Delivery state manager: the in-memory StateManager (drivers and orders  *)
(* behind one sync.RWMutex), the use cases in front of it and the periodic *)
(* Matcher that pairs pending orders with available drivers.               *)
(*                                                                         *)
(* Two levels of granularity share the same operators:                     *)
(*   Spec      every store call is one step (its critical section); a      *)
(*             matcher tick is the sequence of its store calls, so HTTP    *)
(*             calls interleave between them.                              *)
(*   SpecLock  the store calls of a few goroutines statement by statement, *)
(*             with the RWMutex explicit.                                  *)
(***************************************************************************)
EXTENDS Integers, Sequences, FiniteSets, TLC

VARIABLES
    drivers,    \* StateManager.drivers: driver ID -> record
    orders,     \* StateManager.orders: order ID -> record
    clock,      \* what time.Now().Unix() returns
    ret,        \* the response of the last HTTP call (where a specification records it)
    mPc,        \* Matcher: where MatchOrders stands
    mPending,   \* Matcher: pendingOrders, the IDs in the order read
    mAvail,     \* Matcher: availableDrivers, the IDs in the order read
    mI,         \* Matcher: the loop index i
    matched,    \* Matcher: matched
    mu,         \* StateManager.mu: the writer and the readers holding it
    pc,         \* per goroutine: where its store call stands
    frame       \* per goroutine: the call's arguments, locals and results

storeVars == <<drivers, orders>>
matcherVars == <<mPc, mPending, mAvail, mI, matched>>
lockVars == <<mu, pc, frame>>
vars == <<drivers, orders, clock, ret, mPc, mPending, mAvail, mI, matched, mu, pc, frame>>

\* ---------------------------------------------------------------- bounds
\* time.Now().Unix() is read from 0 .. MaxClock
MaxClock == 1

\* ------------------------------------------------------------ vocabulary
DriverIDs == {"d1", "d2"}
OrderIDs == {"o1", "o2"}
Names == {"n1"}
Customers == {"c1"}

DriverAvailable == "available"
DriverBusy == "busy"
DriverOffline == "offline"

OrderPending == "pending"
OrderAssigned == "assigned"
OrderPickedUp == "picked_up"
OrderDelivered == "delivered"
OrderCanceled == "canceled"

DriverStatuses == {DriverAvailable, DriverBusy, DriverOffline}
OrderStatuses == {OrderPending, OrderAssigned, OrderPickedUp, OrderDelivered, OrderCanceled}

\* a status string outside both enumerations, as a request may carry
Bogus == "bogus"

ErrNone == "nil"
ErrMissingRequiredField == "missing required field"
ErrInvalidStatusUpdate == "invalid status update"
ErrInvalidTransition == "invalid state transition"
ErrDriverNotAvailable == "driver is not available"
ErrOrderAlreadyAssigned == "order is already assigned"
ErrDriverNotFound == "driver not found"
ErrOrderNotFound == "order not found"

\* ------------------------------------------------------- models (pure)
\* mutant: every status string is taken as valid
IsValidDriverStatus_AcceptsAll(status) == TRUE

IsValidDriverStatus(status) == status \in {DriverAvailable, DriverBusy, DriverOffline}

IsValidOrderStatus(status) ==
    status \in {OrderPending, OrderAssigned, OrderPickedUp, OrderDelivered, OrderCanceled}

validTransitions ==
    (OrderPending :> {OrderAssigned, OrderCanceled})
    @@ (OrderAssigned :> {OrderPickedUp, OrderCanceled})
    @@ (OrderPickedUp :> {OrderDelivered, OrderCanceled})
    @@ (OrderDelivered :> {})
    @@ (OrderCanceled :> {})

\* mutant: a delivered order may still be canceled
CanTransitionOrderStatus_CancelDelivered(from, to) ==
    \/ from \in DOMAIN validTransitions /\ to \in validTransitions[from]
    \/ from = OrderDelivered /\ to = OrderCanceled

CanTransitionOrderStatus(from, to) ==
    /\ from \in DOMAIN validTransitions
    /\ to \in validTransitions[from]

\* the map with key k bound to v (Go: m[k] = v)
Put(m, k, v) == (k :> v) @@ m

\* --------------------------------------------- StateManager (pure parts)
\* CreateOrUpdateDriver: stamp, then store under driver.ID
\* mutant: a driver already stored keeps its status
RepoCreateOrUpdateDriver_Merge(drv, id, name, status, now) ==
    (id :> [name |-> name,
            status |-> IF id \in DOMAIN drv THEN drv[id].status ELSE status,
            updatedAt |-> now]) @@ drv

RepoCreateOrUpdateDriver(drv, id, name, status, now) ==
    Put(drv, id, [name |-> name, status |-> status, updatedAt |-> now])

UpdateDriverStatusErr(drv, id, status) ==
    IF ~IsValidDriverStatus(status) THEN ErrInvalidStatusUpdate
    ELSE IF id \notin DOMAIN drv THEN ErrDriverNotFound
    ELSE ErrNone

RepoUpdateDriverStatus(drv, id, status, now) ==
    [drv EXCEPT ![id].status = status, ![id].updatedAt = now]

\* mutant: the driver reference of the request is kept
RepoCreateOrder_KeepsDriver(ord, id, customer, status, driverID, now) ==
    (id :> [customer |-> customer, status |-> OrderPending, driverID |-> driverID,
            createdAt |-> now, updatedAt |-> now]) @@ ord

\* CreateOrder: force pending, stamp both times, clear the driver reference;
\* status and driverID are what the request body carried
RepoCreateOrder(ord, id, customer, status, driverID, now) ==
    Put(ord, id, [customer |-> customer, status |-> OrderPending, driverID |-> "",
                  createdAt |-> now, updatedAt |-> now])

\* mutant: the transition is not validated
UpdateOrderStatusErr_NoTransitionCheck(ord, id, status) ==
    IF status \notin OrderStatuses
    THEN ErrInvalidStatusUpdate
    ELSE IF id \notin DOMAIN ord THEN ErrOrderNotFound
    ELSE ErrNone

UpdateOrderStatusErr(ord, id, status) ==
    IF ~IsValidOrderStatus(status) THEN ErrInvalidStatusUpdate
    ELSE IF id \notin DOMAIN ord THEN ErrOrderNotFound
    ELSE IF ~CanTransitionOrderStatus(ord[id].status, status) THEN ErrInvalidTransition
    ELSE ErrNone

\* mutant: a canceled order gives up its driver reference
RepoUpdateOrderStatus_ClearsDriver(ord, id, status, now) ==
    [ord EXCEPT ![id].status = status, ![id].updatedAt = now,
                ![id].driverID = IF status = OrderCanceled THEN "" ELSE @]

RepoUpdateOrderStatus(ord, id, status, now) ==
    [ord EXCEPT ![id].status = status, ![id].updatedAt = now]

\* mutant: the driver's status is not validated
AssignOrderToDriverErr_NoDriverCheck(drv, ord, orderID, driverID) ==
    IF orderID \notin DOMAIN ord THEN ErrOrderNotFound
    ELSE IF driverID \notin DOMAIN drv THEN ErrDriverNotFound
    ELSE IF ord[orderID].status # OrderPending THEN ErrOrderAlreadyAssigned
    ELSE ErrNone

\* mutant: the driver is looked up and validated before the order
AssignOrderToDriverErr_DriverFirst(drv, ord, orderID, driverID) ==
    IF driverID \notin DOMAIN drv THEN ErrDriverNotFound
    ELSE IF orderID \notin DOMAIN ord THEN ErrOrderNotFound
    ELSE IF drv[driverID].status # DriverAvailable THEN ErrDriverNotAvailable
    ELSE IF ord[orderID].status # OrderPending THEN ErrOrderAlreadyAssigned
    ELSE ErrNone

\* mutant: the order's status is not validated
AssignOrderToDriverErr_NoOrderCheck(drv, ord, orderID, driverID) ==
    IF orderID \notin DOMAIN ord THEN ErrOrderNotFound
    ELSE IF driverID \notin DOMAIN drv THEN ErrDriverNotFound
    ELSE IF drv[driverID].status # DriverAvailable THEN ErrDriverNotAvailable
    ELSE ErrNone

\* AssignOrderToDriver: the lookups and the two validations, in source order
AssignOrderToDriverErr(drv, ord, orderID, driverID) ==
    IF orderID \notin DOMAIN ord THEN ErrOrderNotFound
    ELSE IF driverID \notin DOMAIN drv THEN ErrDriverNotFound
    ELSE IF ord[orderID].status # OrderPending THEN ErrOrderAlreadyAssigned
    ELSE IF drv[driverID].status # DriverAvailable THEN ErrDriverNotAvailable
    ELSE ErrNone

\* mutant: order.DriverID is not written
AssignWriteOrder_NoDriverID(ord, orderID, driverID, now) ==
    [ord EXCEPT ![orderID].status = OrderAssigned, ![orderID].updatedAt = now]

\* mutant: order.CreatedAt is stamped as well
AssignWriteOrder_StampsCreatedAt(ord, orderID, driverID, now) ==
    [ord EXCEPT ![orderID].status = OrderAssigned,
                ![orderID].driverID = driverID,
                ![orderID].createdAt = now + 1,
                ![orderID].updatedAt = now]

\* AssignOrderToDriver: the three writes to the order
AssignWriteOrder(ord, orderID, driverID, now) ==
    [ord EXCEPT ![orderID].status = OrderAssigned,
                ![orderID].driverID = driverID,
                ![orderID].updatedAt = now]

\* mutant: driver.Status is not written
AssignWriteDriver_NoStatus(drv, driverID, now) ==
    [drv EXCEPT ![driverID].updatedAt = now]

\* AssignOrderToDriver: the two writes to the driver
AssignWriteDriver(drv, driverID, now) ==
    [drv EXCEPT ![driverID].status = DriverBusy, ![driverID].updatedAt = now]

\* GetPendingOrders / GetAvailableDrivers: the IDs of the copies returned
\* mutant: GetPendingOrders filters on the wrong status
PendingIDs_WrongStatus(ord) == {id \in DOMAIN ord : ord[id].status = OrderAssigned}

PendingIDs(ord) == {id \in DOMAIN ord : ord[id].status = OrderPending}
AvailableIDs(drv) == {id \in DOMAIN drv : drv[id].status = DriverAvailable}

\* a Go map is ranged over in an unspecified order: every order of S
Orderings(S) ==
    {s \in [1..Cardinality(S) -> S] : \A i, j \in 1..Cardinality(S) : i # j => s[i] # s[j]}

\* ------------------------------------------------------------ responses
NoRet == [op |-> "none", id |-> "", arg |-> "", err |-> ErrNone]
Resp(op, id, arg, err) == [op |-> op, id |-> id, arg |-> arg, err |-> err]

\* -------------------------------------------------------------- RWMutex
Procs == {"p1", "p2", "p3"}
NoProc == "none"
MuFree == [writer |-> NoProc, readers |-> {}]

\* mutant: Lock() never waits
CanLock_NeverWaits(m) == TRUE

\* mutant: Lock() does not wait for the readers
CanLock_IgnoresReaders(m) == m.writer = NoProc

\* Lock() returns once no writer and no reader holds the mutex
CanLock(m) == m.writer = NoProc /\ m.readers = {}

\* mutant: RLock() does not wait for the writer
CanRLock_IgnoresWriter(m) == TRUE

\* RLock() returns once no writer holds the mutex
CanRLock(m) == m.writer = NoProc

\* a goroutine's locals: the call and its arguments, its error, the records
\* it holds as values of its own (rdrivers, rorders), and alias: the ID of
\* the driver whose stored record its pointer refers to ("" when it has none)
NoFrame ==
    [op |-> "none", oid |-> "", did |-> "", status |-> "", err |-> ErrNone,
     rdrivers |-> <<>>, rorders |-> <<>>, alias |-> ""]

\* the driver record goroutine p reaches through what it holds
Held(p) ==
    IF frame[p].alias # ""
    THEN (frame[p].alias :> drivers[frame[p].alias])
    ELSE frame[p].rdrivers

\* ------------------------------------------------------------------ Init
\* NewStateManager: two empty maps; nothing is running
Init ==
    /\ drivers = <<>>
    /\ orders = <<>>
    /\ clock = 0
    /\ ret = NoRet
    /\ mPc = "idle"
    /\ mPending = <<>>
    /\ mAvail = <<>>
    /\ mI = 0
    /\ matched = 0
    /\ mu = MuFree
    /\ pc = [p \in Procs |-> "idle"]
    /\ frame = [p \in Procs |-> NoFrame]

\* the wall clock moves on
Tick ==
    /\ clock < MaxClock
    /\ clock' = clock + 1
    /\ UNCHANGED <<drivers, orders, ret, matcherVars, lockVars>>

\* ------------------------------- HTTP calls, one step per critical section
\* DriverUseCase.CreateOrUpdateDriver: what it returns
CreateOrUpdateDriverErr(id, name, status) ==
    IF id = "" \/ name = "" THEN ErrMissingRequiredField
    ELSE IF status # "" /\ ~IsValidDriverStatus(status) THEN ErrInvalidStatusUpdate
    ELSE ErrNone

\* POST /drivers: DriverUseCase.CreateOrUpdateDriver, then the store
CreateOrUpdateDriver(id, name, status) ==
    /\ drivers' = IF CreateOrUpdateDriverErr(id, name, status) = ErrNone
                  THEN RepoCreateOrUpdateDriver(drivers, id, name,
                           IF status = "" THEN DriverAvailable ELSE status, clock)
                  ELSE drivers
    /\ UNCHANGED <<orders, clock, matcherVars, lockVars>>

\* PATCH /drivers/:id/status
UpdateDriverStatus(id, status) ==
    /\ drivers' = IF UpdateDriverStatusErr(drivers, id, status) = ErrNone
                  THEN RepoUpdateDriverStatus(drivers, id, status, clock)
                  ELSE drivers
    /\ UNCHANGED <<orders, clock, matcherVars, lockVars>>

\* mutant: the customer is not required
CreateOrderErr_NoCustomerCheck(id, customer) ==
    IF id = "" THEN ErrMissingRequiredField ELSE ErrNone

\* OrderUseCase.CreateOrder: what it returns
CreateOrderErr(id, customer) ==
    IF id = "" \/ customer = "" THEN ErrMissingRequiredField ELSE ErrNone

\* POST /orders: OrderUseCase.CreateOrder, then the store
CreateOrder(id, customer, status, driverID) ==
    /\ orders' = IF CreateOrderErr(id, customer) = ErrNone
                 THEN RepoCreateOrder(orders, id, customer, status, driverID, clock)
                 ELSE orders
    /\ UNCHANGED <<drivers, clock, matcherVars, lockVars>>

\* PATCH /orders/:id/status
UpdateOrderStatus(id, status) ==
    /\ orders' = IF UpdateOrderStatusErr(orders, id, status) = ErrNone
                 THEN RepoUpdateOrderStatus(orders, id, status, clock)
                 ELSE orders
    /\ UNCHANGED <<drivers, clock, matcherVars, lockVars>>

\* ------------------------------------------------------------- Matcher
\* MatchOrders, first call: GetPendingOrders
MatchReadPending ==
    /\ mPc = "idle"
    /\ \E s \in Orderings(PendingIDs(orders)) : mPending' = s
    /\ mPc' = "drivers"
    /\ UNCHANGED <<drivers, orders, clock, ret, mAvail, mI, matched, lockVars>>

\* mutant: the tick enters its loop although a list is empty
MatchReadAvailable_NoEmptyTest ==
    /\ mPc = "drivers"
    /\ \E s \in Orderings(AvailableIDs(drivers)) :
          /\ mPc' = "loop"
          /\ mAvail' = s
          /\ mPending' = mPending
    /\ mI' = 0
    /\ matched' = 0
    /\ UNCHANGED <<drivers, orders, clock, ret, lockVars>>

\* MatchOrders, second call: GetAvailableDrivers, then the two emptiness tests
MatchReadAvailable ==
    /\ mPc = "drivers"
    /\ \E s \in Orderings(AvailableIDs(drivers)) :
          IF Len(mPending) = 0 \/ Len(s) = 0
          THEN /\ mPc' = "idle"
               /\ mPending' = <<>>
               /\ mAvail' = <<>>
          ELSE /\ mPc' = "loop"
               /\ mAvail' = s
               /\ mPending' = mPending
    /\ mI' = 0
    /\ matched' = 0
    /\ UNCHANGED <<drivers, orders, clock, ret, lockVars>>

\* mutant: every order of the tick is paired with the first driver read
MatchAssign_FirstDriver ==
    /\ mPc = "loop"
    /\ LET orderID == mPending[mI + 1]
           driverID == mAvail[1]
           err == AssignOrderToDriverErr(drivers, orders, orderID, driverID)
       IN /\ orders' = IF err = ErrNone
                       THEN AssignWriteOrder(orders, orderID, driverID, clock)
                       ELSE orders
          /\ drivers' = IF err = ErrNone
                        THEN AssignWriteDriver(drivers, driverID, clock)
                        ELSE drivers
          /\ IF mI + 1 >= Len(mPending) \/ mI + 1 >= Len(mAvail)
             THEN /\ mPc' = "idle"
                  /\ mPending' = <<>>
                  /\ mAvail' = <<>>
                  /\ mI' = 0
                  /\ matched' = 0
             ELSE /\ mPc' = "loop"
                  /\ mI' = mI + 1
                  /\ matched' = IF err = ErrNone THEN matched + 1 ELSE matched
                  /\ UNCHANGED <<mPending, mAvail>>
    /\ UNCHANGED <<clock, ret, lockVars>>

\* mutant: the tick returns at the first failed assignment
MatchAssign_AbortsOnError ==
    /\ mPc = "loop"
    /\ LET orderID == mPending[mI + 1]
           driverID == mAvail[mI + 1]
           err == AssignOrderToDriverErr(drivers, orders, orderID, driverID)
       IN /\ orders' = IF err = ErrNone
                       THEN AssignWriteOrder(orders, orderID, driverID, clock)
                       ELSE orders
          /\ drivers' = IF err = ErrNone
                        THEN AssignWriteDriver(drivers, driverID, clock)
                        ELSE drivers
          /\ IF err # ErrNone \/ mI + 1 >= Len(mPending) \/ mI + 1 >= Len(mAvail)
             THEN /\ mPc' = "idle"
                  /\ mPending' = <<>>
                  /\ mAvail' = <<>>
                  /\ mI' = 0
                  /\ matched' = 0
             ELSE /\ mPc' = "loop"
                  /\ mI' = mI + 1
                  /\ matched' = matched + 1
                  /\ UNCHANGED <<mPending, mAvail>>
    /\ UNCHANGED <<clock, ret, lockVars>>

\* MatchOrders, iteration i of the loop: AssignOrderToDriver on the i-th pair,
\* then the loop's exit test
MatchAssign ==
    /\ mPc = "loop"
    /\ LET orderID == mPending[mI + 1]
           driverID == mAvail[mI + 1]
           err == AssignOrderToDriverErr(drivers, orders, orderID, driverID)
       IN /\ orders' = IF err = ErrNone
                       THEN AssignWriteOrder(orders, orderID, driverID, clock)
                       ELSE orders
          /\ drivers' = IF err = ErrNone
                        THEN AssignWriteDriver(drivers, driverID, clock)
                        ELSE drivers
          /\ IF mI + 1 >= Len(mPending) \/ mI + 1 >= Len(mAvail)
             THEN /\ mPc' = "idle"
                  /\ mPending' = <<>>
                  /\ mAvail' = <<>>
                  /\ mI' = 0
                  /\ matched' = 0
             ELSE /\ mPc' = "loop"
                  /\ mI' = mI + 1
                  /\ matched' = IF err = ErrNone THEN matched + 1 ELSE matched
                  /\ UNCHANGED <<mPending, mAvail>>
    /\ UNCHANGED <<clock, ret, lockVars>>

\* what a request body may carry
DriverIDInputs == DriverIDs \cup {""}
NameInputs == Names \cup {""}
DriverStatusInputs == DriverStatuses \cup {"", Bogus}
OrderIDInputs == OrderIDs \cup {""}
CustomerInputs == Customers \cup {""}
OrderStatusInputs == OrderStatuses \cup {"", Bogus}

\* the program: HTTP handlers and the matcher goroutine on one StateManager;
\* responses are not recorded
Next ==
    \/ \E id \in DriverIDInputs, name \in NameInputs, status \in DriverStatusInputs :
          CreateOrUpdateDriver(id, name, status) /\ UNCHANGED ret
    \/ \E id \in DriverIDs, status \in DriverStatusInputs :
          UpdateDriverStatus(id, status) /\ UNCHANGED ret
    \/ \E id \in OrderIDInputs, customer \in CustomerInputs,
          status \in {"", OrderDelivered}, driverID \in DriverIDInputs :
          CreateOrder(id, customer, status, driverID) /\ UNCHANGED ret
    \/ \E id \in OrderIDs, status \in OrderStatusInputs :
          UpdateOrderStatus(id, status) /\ UNCHANGED ret
    \/ MatchReadPending
    \/ MatchReadAvailable
    \/ MatchAssign

Spec == Init /\ [][Next]_vars

\* the program with its scheduling: the ticker keeps firing and a tick that
\* has started runs on to its end
SpecLive ==
    /\ Spec
    /\ WF_vars(MatchReadPending)
    /\ WF_vars(MatchReadAvailable)
    /\ WF_vars(MatchAssign)

\* ------------------------------------- store calls, statement by statement
\* A goroutine p calls one store method: the call's arguments are in frame[p],
\* pc[p] is the statement it stands before.
Arg(p) == frame[p]

CallAssignOrderToDriver(p, orderID, driverID) ==
    /\ pc[p] = "idle"
    /\ frame' = [frame EXCEPT ![p] = [NoFrame EXCEPT !.op = "AssignOrderToDriver",
                                              !.oid = orderID, !.did = driverID]]
    /\ pc' = [pc EXCEPT ![p] = "aLock"]
    /\ UNCHANGED <<drivers, orders, clock, ret, matcherVars, mu>>

\* mutant: AssignOrderToDriver takes the read lock
AssignLock_AsRLock(p) ==
    /\ pc[p] = "aLock"
    /\ mu.writer = NoProc
    /\ mu' = [mu EXCEPT !.readers = @ \cup {p}]
    /\ pc' = [pc EXCEPT ![p] = "aCheck"]
    /\ UNCHANGED <<drivers, orders, clock, ret, matcherVars, frame>>

\* AssignOrderToDriver: sm.mu.Lock()
AssignLock(p) ==
    /\ pc[p] = "aLock"
    /\ CanLock(mu)
    /\ mu' = [mu EXCEPT !.writer = p]
    /\ pc' = [pc EXCEPT ![p] = "aCheck"]
    /\ UNCHANGED <<drivers, orders, clock, ret, matcherVars, frame>>

\* mutant: an error return leaves the mutex locked
AssignCheck_NoUnlockOnError(p) ==
    /\ pc[p] = "aCheck"
    /\ LET err == AssignOrderToDriverErr(drivers, orders, Arg(p).oid, Arg(p).did)
       IN /\ frame' = [frame EXCEPT ![p].err = err]
          /\ pc' = [pc EXCEPT ![p] = IF err = ErrNone THEN "aOrder" ELSE "done"]
    /\ UNCHANGED <<drivers, orders, clock, ret, matcherVars, mu>>

\* AssignOrderToDriver: the two lookups and the two validations
AssignCheck(p) ==
    /\ pc[p] = "aCheck"
    /\ LET err == AssignOrderToDriverErr(drivers, orders, Arg(p).oid, Arg(p).did)
       IN /\ frame' = [frame EXCEPT ![p].err = err]
          /\ pc' = [pc EXCEPT ![p] = IF err = ErrNone THEN "aOrder" ELSE "unlock"]
    /\ UNCHANGED <<drivers, orders, clock, ret, matcherVars, mu>>

\* AssignOrderToDriver: order.Status, order.DriverID, order.UpdatedAt
AssignOrder(p) ==
    /\ pc[p] = "aOrder"
    /\ orders' = AssignWriteOrder(orders, Arg(p).oid, Arg(p).did, clock)
    /\ pc' = [pc EXCEPT ![p] = "aDriver"]
    /\ UNCHANGED <<drivers, clock, ret, matcherVars, mu, frame>>

\* AssignOrderToDriver: driver.Status, driver.UpdatedAt
AssignDriver(p) ==
    /\ pc[p] = "aDriver"
    /\ drivers' = AssignWriteDriver(drivers, Arg(p).did, clock)
    /\ pc' = [pc EXCEPT ![p] = "unlock"]
    /\ UNCHANGED <<orders, clock, ret, matcherVars, mu, frame>>

\* the deferred sm.mu.Unlock(), and the return
Unlock(p) ==
    /\ pc[p] = "unlock"
    /\ mu' = [mu EXCEPT !.writer = NoProc]
    /\ pc' = [pc EXCEPT ![p] = "done"]
    /\ UNCHANGED <<drivers, orders, clock, ret, matcherVars, frame>>

CallUpdateDriverStatus(p, id, status) ==
    /\ pc[p] = "idle"
    /\ frame' = [frame EXCEPT ![p] = [NoFrame EXCEPT !.op = "UpdateDriverStatus",
                                              !.did = id, !.status = status]]
    /\ pc' = [pc EXCEPT ![p] = "uLock"]
    /\ UNCHANGED <<drivers, orders, clock, ret, matcherVars, mu>>

\* UpdateDriverStatus: the status test, then sm.mu.Lock()
UpdateDriverStatusLock(p) ==
    /\ pc[p] = "uLock"
    /\ IF ~IsValidDriverStatus(Arg(p).status)
       THEN /\ frame' = [frame EXCEPT ![p].err = ErrInvalidStatusUpdate]
            /\ pc' = [pc EXCEPT ![p] = "done"]
            /\ mu' = mu
       ELSE /\ CanLock(mu)
            /\ mu' = [mu EXCEPT !.writer = p]
            /\ pc' = [pc EXCEPT ![p] = "uWrite"]
            /\ frame' = frame
    /\ UNCHANGED <<drivers, orders, clock, ret, matcherVars>>

\* UpdateDriverStatus: the lookup and the two writes
UpdateDriverStatusWrite(p) ==
    /\ pc[p] = "uWrite"
    /\ IF Arg(p).did \notin DOMAIN drivers
       THEN /\ frame' = [frame EXCEPT ![p].err = ErrDriverNotFound]
            /\ drivers' = drivers
       ELSE /\ drivers' = RepoUpdateDriverStatus(drivers, Arg(p).did, Arg(p).status, clock)
            /\ frame' = frame
    /\ pc' = [pc EXCEPT ![p] = "unlock"]
    /\ UNCHANGED <<orders, clock, ret, matcherVars, mu>>

CallCreateOrUpdateDriver(p, id, name, status) ==
    /\ pc[p] = "idle"
    /\ frame' = [frame EXCEPT ![p] = [NoFrame EXCEPT !.op = "CreateOrUpdateDriver",
                                              !.did = id, !.oid = name, !.status = status]]
    /\ pc' = [pc EXCEPT ![p] = "cLock"]
    /\ UNCHANGED <<drivers, orders, clock, ret, matcherVars, mu>>

\* DriverUseCase.CreateOrUpdateDriver: the two tests and the default status;
\* then StateManager.CreateOrUpdateDriver: sm.mu.Lock()
\* (the driver's name travels in frame[p].oid)
CreateOrUpdateDriverLock(p) ==
    /\ pc[p] = "cLock"
    /\ LET err == CreateOrUpdateDriverErr(Arg(p).did, Arg(p).oid, Arg(p).status)
       IN IF err # ErrNone
          THEN /\ frame' = [frame EXCEPT ![p].err = err]
               /\ pc' = [pc EXCEPT ![p] = "done"]
               /\ mu' = mu
          ELSE /\ CanLock(mu)
               /\ mu' = [mu EXCEPT !.writer = p]
               /\ frame' = [frame EXCEPT ![p].status =
                               IF @ = "" THEN DriverAvailable ELSE @]
               /\ pc' = [pc EXCEPT ![p] = "cWrite"]
    /\ UNCHANGED <<drivers, orders, clock, ret, matcherVars>>

\* StateManager.CreateOrUpdateDriver: the stamp and the map write. The map
\* takes the caller's pointer: the caller's variable and the stored record are
\* one object from here on, and a goroutine whose pointer the map held under
\* this ID before is left with the record as it was.
CreateOrUpdateDriverWrite(p) ==
    /\ pc[p] = "cWrite"
    /\ drivers' = RepoCreateOrUpdateDriver(drivers, Arg(p).did, Arg(p).oid, Arg(p).status, clock)
    /\ frame' = [q \in Procs |->
                    IF q = p THEN [frame[q] EXCEPT !.alias = Arg(p).did]
                    ELSE IF frame[q].alias = Arg(p).did
                    THEN [frame[q] EXCEPT !.alias = "", !.rdrivers = Held(q)]
                    ELSE frame[q]]
    /\ pc' = [pc EXCEPT ![p] = "unlock"]
    /\ UNCHANGED <<orders, clock, ret, matcherVars, mu>>

\* createOrUpdateDriverHandler after the use case returned nil: c.JSON copies
\* the handler's driver variable into the response, no lock held
CreateDriverRespond(p) ==
    /\ pc[p] = "done"
    /\ frame[p].op = "CreateOrUpdateDriver"
    /\ frame[p].err = ErrNone
    /\ frame' = [frame EXCEPT ![p].rdrivers = Held(p)]
    /\ pc' = [pc EXCEPT ![p] = "responded"]
    /\ UNCHANGED <<drivers, orders, clock, ret, matcherVars, mu>>

CallGetSnapshot(p) ==
    /\ pc[p] = "idle"
    /\ frame' = [frame EXCEPT ![p] = [NoFrame EXCEPT !.op = "GetSnapshot"]]
    /\ pc' = [pc EXCEPT ![p] = "sRLock"]
    /\ UNCHANGED <<drivers, orders, clock, ret, matcherVars, mu>>

\* GetSnapshot: sm.mu.RLock()
SnapshotRLock(p) ==
    /\ pc[p] = "sRLock"
    /\ CanRLock(mu)
    /\ mu' = [mu EXCEPT !.readers = @ \cup {p}]
    /\ pc' = [pc EXCEPT ![p] = "sDrivers"]
    /\ UNCHANGED <<drivers, orders, clock, ret, matcherVars, frame>>

\* mutant: the read lock is given up after the drivers are copied
SnapshotDrivers_ReleasesLock(p) ==
    /\ pc[p] = "sDrivers"
    /\ frame' = [frame EXCEPT ![p].rdrivers = drivers]
    /\ mu' = [mu EXCEPT !.readers = @ \ {p}]
    /\ pc' = [pc EXCEPT ![p] = "sOrders"]
    /\ UNCHANGED <<drivers, orders, clock, ret, matcherVars>>

\* GetSnapshot: the loop copying sm.drivers
SnapshotDrivers(p) ==
    /\ pc[p] = "sDrivers"
    /\ frame' = [frame EXCEPT ![p].rdrivers = drivers]
    /\ pc' = [pc EXCEPT ![p] = "sOrders"]
    /\ UNCHANGED <<drivers, orders, clock, ret, matcherVars, mu>>

\* GetSnapshot: the loop copying sm.orders
SnapshotOrders(p) ==
    /\ pc[p] = "sOrders"
    /\ frame' = [frame EXCEPT ![p].rorders = orders]
    /\ pc' = [pc EXCEPT ![p] = "runlock"]
    /\ UNCHANGED <<drivers, orders, clock, ret, matcherVars, mu>>

CallGetOrder(p, id) ==
    /\ pc[p] = "idle"
    /\ frame' = [frame EXCEPT ![p] = [NoFrame EXCEPT !.op = "GetOrder", !.oid = id]]
    /\ pc' = [pc EXCEPT ![p] = "gRLock"]
    /\ UNCHANGED <<drivers, orders, clock, ret, matcherVars, mu>>

CallGetDriver(p, id) ==
    /\ pc[p] = "idle"
    /\ frame' = [frame EXCEPT ![p] = [NoFrame EXCEPT !.op = "GetDriver", !.did = id]]
    /\ pc' = [pc EXCEPT ![p] = "gRLock"]
    /\ UNCHANGED <<drivers, orders, clock, ret, matcherVars, mu>>

\* GetOrder / GetDriver: sm.mu.RLock()
GetRLock(p) ==
    /\ pc[p] = "gRLock"
    /\ CanRLock(mu)
    /\ mu' = [mu EXCEPT !.readers = @ \cup {p}]
    /\ pc' = [pc EXCEPT ![p] = "gCopy"]
    /\ UNCHANGED <<drivers, orders, clock, ret, matcherVars, frame>>

\* mutant: GetDriver returns the stored pointer
GetCopy_ReturnsStored(p) ==
    /\ pc[p] = "gCopy"
    /\ LET f == frame[p]
       IN frame' = [frame EXCEPT ![p] =
             IF f.op = "GetOrder"
             THEN IF f.oid \in DOMAIN orders
                  THEN [f EXCEPT !.rorders = (f.oid :> orders[f.oid])]
                  ELSE [f EXCEPT !.err = ErrOrderNotFound]
             ELSE IF f.did \in DOMAIN drivers
                  THEN [f EXCEPT !.alias = f.did]
                  ELSE [f EXCEPT !.err = ErrDriverNotFound]]
    /\ pc' = [pc EXCEPT ![p] = "runlock"]
    /\ UNCHANGED <<drivers, orders, clock, ret, matcherVars, mu>>

\* GetOrder / GetDriver: the lookup and the copy of the record
GetCopy(p) ==
    /\ pc[p] = "gCopy"
    /\ LET f == frame[p]
       IN frame' = [frame EXCEPT ![p] =
             IF f.op = "GetOrder"
             THEN IF f.oid \in DOMAIN orders
                  THEN [f EXCEPT !.rorders = (f.oid :> orders[f.oid])]
                  ELSE [f EXCEPT !.err = ErrOrderNotFound]
             ELSE IF f.did \in DOMAIN drivers
                  THEN [f EXCEPT !.rdrivers = (f.did :> drivers[f.did])]
                  ELSE [f EXCEPT !.err = ErrDriverNotFound]]
    /\ pc' = [pc EXCEPT ![p] = "runlock"]
    /\ UNCHANGED <<drivers, orders, clock, ret, matcherVars, mu>>

\* the deferred sm.mu.RUnlock(), and the return
RUnlock(p) ==
    /\ pc[p] = "runlock"
    /\ mu' = [mu EXCEPT !.readers = @ \ {p}]
    /\ pc' = [pc EXCEPT ![p] = "done"]
    /\ UNCHANGED <<drivers, orders, clock, ret, matcherVars, frame>>

CallUpdateOrderStatus(p, id, status) ==
    /\ pc[p] = "idle"
    /\ frame' = [frame EXCEPT ![p] = [NoFrame EXCEPT !.op = "UpdateOrderStatus",
                                              !.oid = id, !.status = status]]
    /\ pc' = [pc EXCEPT ![p] = "oLock"]
    /\ UNCHANGED <<drivers, orders, clock, ret, matcherVars, mu>>

\* UpdateOrderStatus: the status test, then sm.mu.Lock()
UpdateOrderStatusLock(p) ==
    /\ pc[p] = "oLock"
    /\ IF ~IsValidOrderStatus(Arg(p).status)
       THEN /\ frame' = [frame EXCEPT ![p].err = ErrInvalidStatusUpdate]
            /\ pc' = [pc EXCEPT ![p] = "done"]
            /\ mu' = mu
       ELSE /\ CanLock(mu)
            /\ mu' = [mu EXCEPT !.writer = p]
            /\ pc' = [pc EXCEPT ![p] = "oWrite"]
            /\ frame' = frame
    /\ UNCHANGED <<drivers, orders, clock, ret, matcherVars>>

\* mutant: an order that reaches a terminal status sets its driver available
UpdateOrderStatusWrite_FreesDriver(p) ==
    /\ pc[p] = "oWrite"
    /\ LET err == UpdateOrderStatusErr(orders, Arg(p).oid, Arg(p).status)
           d == IF err = ErrNone THEN orders[Arg(p).oid].driverID ELSE ""
       IN /\ frame' = [frame EXCEPT ![p].err = err]
          /\ orders' = IF err = ErrNone
                       THEN RepoUpdateOrderStatus(orders, Arg(p).oid, Arg(p).status, clock)
                       ELSE orders
          /\ drivers' = IF d \in DOMAIN drivers /\ Arg(p).status \in {OrderDelivered, OrderCanceled}
                        THEN [drivers EXCEPT ![d].status = DriverAvailable]
                        ELSE drivers
    /\ pc' = [pc EXCEPT ![p] = "unlock"]
    /\ UNCHANGED <<clock, ret, matcherVars, mu>>

\* UpdateOrderStatus: the lookup, the transition test and the two writes
UpdateOrderStatusWrite(p) ==
    /\ pc[p] = "oWrite"
    /\ LET err == UpdateOrderStatusErr(orders, Arg(p).oid, Arg(p).status)
       IN /\ frame' = [frame EXCEPT ![p].err = err]
          /\ orders' = IF err = ErrNone
                       THEN RepoUpdateOrderStatus(orders, Arg(p).oid, Arg(p).status, clock)
                       ELSE orders
    /\ pc' = [pc EXCEPT ![p] = "unlock"]
    /\ UNCHANGED <<drivers, clock, ret, matcherVars, mu>>

\* (the customer travels in frame[p].did)
CallCreateOrder(p, id, customer) ==
    /\ pc[p] = "idle"
    /\ frame' = [frame EXCEPT ![p] = [NoFrame EXCEPT !.op = "CreateOrder",
                                              !.oid = id, !.did = customer]]
    /\ pc' = [pc EXCEPT ![p] = "nLock"]
    /\ UNCHANGED <<drivers, orders, clock, ret, matcherVars, mu>>

\* OrderUseCase.CreateOrder: the test of the two fields; then
\* StateManager.CreateOrder: sm.mu.Lock()
CreateOrderLock(p) ==
    /\ pc[p] = "nLock"
    /\ LET err == CreateOrderErr(Arg(p).oid, Arg(p).did)
       IN IF err # ErrNone
          THEN /\ frame' = [frame EXCEPT ![p].err = err]
               /\ pc' = [pc EXCEPT ![p] = "done"]
               /\ mu' = mu
          ELSE /\ CanLock(mu)
               /\ mu' = [mu EXCEPT !.writer = p]
               /\ pc' = [pc EXCEPT ![p] = "nWrite"]
               /\ frame' = frame
    /\ UNCHANGED <<drivers, orders, clock, ret, matcherVars>>

\* StateManager.CreateOrder: the four field writes and the map write
CreateOrderWrite(p) ==
    /\ pc[p] = "nWrite"
    /\ orders' = RepoCreateOrder(orders, Arg(p).oid, Arg(p).did, "", "", clock)
    /\ pc' = [pc EXCEPT ![p] = "unlock"]
    /\ UNCHANGED <<drivers, clock, ret, matcherVars, mu, frame>>

\* a store the program reaches before the goroutines start: both drivers
\* upserted (available or offline), both orders created and still pending
InitLock ==
    /\ drivers \in [DriverIDs -> [name : Names, status : {DriverAvailable, DriverOffline},
                                  updatedAt : {0}]]
    /\ orders = [id \in OrderIDs |->
                    [customer |-> "c1", status |-> OrderPending, driverID |-> "",
                     createdAt |-> 0, updatedAt |-> 0]]
    /\ clock = 0
    /\ ret = NoRet
    /\ mPc = "idle"
    /\ mPending = <<>>
    /\ mAvail = <<>>
    /\ mI = 0
    /\ matched = 0
    /\ mu = MuFree
    /\ pc = [p \in Procs |-> "idle"]
    /\ frame = [p \in Procs |-> NoFrame]

\* IDs no record was ever stored under
MissingOrder == "missing-order"
MissingDriver == "missing-driver"

\* two goroutines, one AssignOrderToDriver call each, any arguments
NextAssign ==
    \E p \in {"p1", "p2"} :
        \/ \E orderID \in OrderIDs \cup {MissingOrder}, driverID \in DriverIDs \cup {MissingDriver} :
              CallAssignOrderToDriver(p, orderID, driverID)
        \/ AssignLock(p)
        \/ AssignCheck(p)
        \/ AssignOrder(p)
        \/ AssignDriver(p)
        \/ Unlock(p)

SpecAssign == InitLock /\ [][NextAssign]_vars

\* an assigning goroutine, one that writes a driver and a reader, one
\* call each
NextRead ==
    \/ \E orderID \in OrderIDs, driverID \in DriverIDs :
          CallAssignOrderToDriver("p1", orderID, driverID)
    \/ AssignLock("p1")
    \/ AssignCheck("p1")
    \/ AssignOrder("p1")
    \/ AssignDriver("p1")
    \/ \E id \in DriverIDs, status \in DriverStatuses : CallUpdateDriverStatus("p2", id, status)
    \/ UpdateDriverStatusLock("p2")
    \/ UpdateDriverStatusWrite("p2")
    \/ \E id \in DriverIDs, name \in Names, status \in DriverStatuses \cup {""} :
          CallCreateOrUpdateDriver("p2", id, name, status)
    \/ CreateOrUpdateDriverLock("p2")
    \/ CreateOrUpdateDriverWrite("p2")
    \/ \E p \in {"p1", "p2"} : Unlock(p)
    \/ CallGetSnapshot("p3")
    \/ SnapshotRLock("p3")
    \/ SnapshotDrivers("p3")
    \/ SnapshotOrders("p3")
    \/ \E id \in OrderIDs : CallGetOrder("p3", id)
    \/ \E id \in DriverIDs : CallGetDriver("p3", id)
    \/ GetRLock("p3")
    \/ GetCopy("p3")
    \/ RUnlock("p3")

SpecRead == InitLock /\ [][NextRead]_vars

\* the steps goroutine p takes inside a call it has made
Step(p) ==
    \/ AssignLock(p) \/ AssignCheck(p) \/ AssignOrder(p) \/ AssignDriver(p)
    \/ UpdateDriverStatusLock(p) \/ UpdateDriverStatusWrite(p)
    \/ CreateOrUpdateDriverLock(p) \/ CreateOrUpdateDriverWrite(p)
    \/ UpdateOrderStatusLock(p) \/ UpdateOrderStatusWrite(p)
    \/ CreateOrderLock(p) \/ CreateOrderWrite(p)
    \/ Unlock(p)
    \/ SnapshotRLock(p) \/ SnapshotDrivers(p) \/ SnapshotOrders(p)
    \/ GetRLock(p) \/ GetCopy(p)
    \/ RUnlock(p)

\* three goroutines, one store call each: p1 and p2 write, p2 and p3 read
NextLock ==
    \/ \E p \in {"p1", "p2"} :
          \/ \E orderID \in {"o1", MissingOrder} : CallAssignOrderToDriver(p, orderID, "d1")
          \/ \E id \in {"d1", MissingDriver}, status \in {DriverBusy, Bogus} :
                CallUpdateDriverStatus(p, id, status)
          \/ \E id \in {"o1", MissingOrder}, status \in {OrderAssigned, OrderDelivered, OrderCanceled, Bogus} :
                CallUpdateOrderStatus(p, id, status)
          \/ \E id \in {"o2", ""} : CallCreateOrder(p, id, "c1")
          \/ \E status \in {"", Bogus} : CallCreateOrUpdateDriver(p, "d2", "n1", status)
    \/ \E p \in {"p2", "p3"} :
          \/ CallGetSnapshot(p)
          \/ CallGetOrder(p, "o1")
    \/ \E p \in Procs : Step(p)

SpecLock == InitLock /\ [][NextLock]_vars

\* the same with the Go scheduler: a goroutine that can run does run
SpecLockLive == SpecLock /\ \A p \in Procs : WF_vars(Step(p))

\* a POST /drivers request, an assigning goroutine and a status update, one
\* call each
NextAlias ==
    \/ \E id \in DriverIDs, name \in Names, status \in DriverStatuses \cup {""} :
          CallCreateOrUpdateDriver("p1", id, name, status)
    \/ CreateOrUpdateDriverLock("p1")
    \/ CreateOrUpdateDriverWrite("p1")
    \/ CreateDriverRespond("p1")
    \/ \E orderID \in OrderIDs, driverID \in DriverIDs :
          CallAssignOrderToDriver("p2", orderID, driverID)
    \/ AssignLock("p2")
    \/ AssignCheck("p2")
    \/ AssignOrder("p2")
    \/ AssignDriver("p2")
    \/ \E id \in DriverIDs, status \in DriverStatuses : CallUpdateDriverStatus("p3", id, status)
    \/ UpdateDriverStatusLock("p3")
    \/ UpdateDriverStatusWrite("p3")
    \/ \E p \in Procs : Unlock(p)

SpecAlias == InitLock /\ [][NextAlias]_vars

\* the order endpoints alone, on a moving clock, each response recorded
NextOrder ==
    \/ Tick
    \/ \E id \in OrderIDInputs, customer \in CustomerInputs,
          status \in {"", OrderDelivered}, driverID \in DriverIDInputs :
          /\ CreateOrder(id, customer, status, driverID)
          /\ ret' = Resp("CreateOrder", id, customer, CreateOrderErr(id, customer))
    \/ \E id \in OrderIDs, status \in OrderStatusInputs :
          /\ UpdateOrderStatus(id, status)
          /\ ret' = Resp("UpdateOrderStatus", id, status,
                         UpdateOrderStatusErr(orders, id, status))

SpecOrder == Init /\ [][NextOrder]_vars

\* the store as some earlier requests left it, and the matcher about to tick
InitTick ==
    /\ \E S \in SUBSET DriverIDs :
          drivers \in [S -> [name : Names, status : DriverStatuses, updatedAt : {0}]]
    /\ \E S \in SUBSET OrderIDs :
          orders \in [S -> [customer : Customers,
                            status : {OrderPending, OrderAssigned, OrderCanceled},
                            driverID : {""}, createdAt : {0}, updatedAt : {0}]]
    /\ clock = 0
    /\ ret = NoRet
    /\ mPc = "idle"
    /\ mPending = <<>>
    /\ mAvail = <<>>
    /\ mI = 0
    /\ matched = 0
    /\ mu = MuFree
    /\ pc = [p \in Procs |-> "idle"]
    /\ frame = [p \in Procs |-> NoFrame]

\* the matcher goroutine alone: no request arrives while it ticks
NextTick ==
    \/ MatchReadPending
    \/ MatchReadAvailable
    \/ MatchAssign

SpecTick == InitTick /\ [][NextTick]_vars

\* the driver endpoints alone, on a moving clock, each response recorded
DriverNameInputs == {"n1", "n2", ""}

NextDriver ==
    \/ Tick
    \/ \E id \in DriverIDInputs, name \in DriverNameInputs, status \in DriverStatusInputs :
          /\ CreateOrUpdateDriver(id, name, status)
          /\ ret' = Resp("CreateOrUpdateDriver", id, <<name, status>>,
                         CreateOrUpdateDriverErr(id, name, status))
    \/ \E id \in DriverIDs, status \in DriverStatusInputs :
          /\ UpdateDriverStatus(id, status)
          /\ ret' = Resp("UpdateDriverStatus", id, status,
                         UpdateDriverStatusErr(drivers, id, status))

SpecDriver == Init /\ [][NextDriver]_vars

\* ------------------------------------------------------------ LoadConfig
\* A time.Duration is an int64 count of nanoseconds. It is written here as
\* three digits in base 10^9, most significant first: <<a, b, c>> stands for
\* a * 10^18 + b * 10^9 + c nanoseconds.
Second == <<0, 1, 0>>

\* n * d for a small integer n (no digit reaches 10^9)
ScaleDuration(n, d) == <<n * d[1], n * d[2], n * d[3]>>

\* d * time.Second: one digit to the left; exact, and within int64, for
\* every d below 9 * 10^9 nanoseconds
MulSecond(d) == <<d[2], d[3], 0>>

\* the environment: MATCHER_INTERVAL is not set, or set to one of these strings
EnvUnset == "<unset>"
EnvValues == {EnvUnset, "", "abc", "1", "2"}

\* strconv.Atoi on the strings above: the integers it parses
Atoi == ("1" :> 1) @@ ("2" :> 2)

\* getDurationEnv(key, defaultValue) when the variable holds value
getDurationEnv(value, defaultValue) ==
    IF value # EnvUnset /\ value \in DOMAIN Atoi
    THEN ScaleDuration(Atoi[value], Second)
    ELSE MulSecond(defaultValue)

\* LoadConfig: the matcher interval it yields
LoadConfig(env) ==
    /\ ret.op = "none"
    /\ ret' = Resp("LoadConfig", env, getDurationEnv(env, ScaleDuration(3, Second)), ErrNone)
    /\ UNCHANGED <<drivers, orders, clock, matcherVars, lockVars>>

\* main: LoadConfig, then the matcher goroutine and the HTTP server
ConfigLoaded == ret.op = "LoadConfig"

NextConfig ==
    \/ \E env \in EnvValues : LoadConfig(env)
    \/ /\ ConfigLoaded
       /\ \E id \in DriverIDs, status \in DriverStatuses :
             CreateOrUpdateDriver(id, "n1", status) /\ UNCHANGED ret
    \/ /\ ConfigLoaded
       /\ \E id \in OrderIDs : CreateOrder(id, "c1", "", "") /\ UNCHANGED ret
    \/ ConfigLoaded /\ MatchReadPending
    \/ ConfigLoaded /\ MatchReadAvailable
    \/ ConfigLoaded /\ MatchAssign

SpecConfig == Init /\ [][NextConfig]_vars

\* ================================================================ claims
\* the six edges of the order status graph, as the specification lists them
GraphEdges ==
    {<<OrderPending, OrderAssigned>>, <<OrderPending, OrderCanceled>>,
     <<OrderAssigned, OrderPickedUp>>, <<OrderAssigned, OrderCanceled>>,
     <<OrderPickedUp, OrderDelivered>>, <<OrderPickedUp, OrderCanceled>>}

NonTerminal == {OrderAssigned, OrderPickedUp}

\* p has returned from an AssignOrderToDriver call
AssignDone(p) == pc[p] = "done" /\ frame[p].op = "AssignOrderToDriver"

\* p and q raced for one driver that was available, with two different
\* pending orders (under SpecAssign a driver that is not offline started
\* available, and every stored order started pending)
SameDriverRace(p, q) ==
    /\ p # q
    /\ AssignDone(p)
    /\ AssignDone(q)
    /\ frame[p].did = frame[q].did
    /\ frame[p].did \in DriverIDs
    /\ drivers[frame[p].did].status # DriverOffline
    /\ frame[p].oid # frame[q].oid
    /\ frame[p].oid \in OrderIDs
    /\ frame[q].oid \in OrderIDs

\* C1: two concurrent AssignOrderToDriver calls for the same available driver
\* and two different pending orders: exactly one returns nil, the other
\* ErrDriverNotAvailable; the winner's order is assigned to the driver, the
\* loser's order is still pending, the driver is busy.
C1_ExactlyOneWins ==
    \A p, q \in Procs :
        SameDriverRace(p, q) =>
            \E w \in {p, q} :
                LET l == IF w = p THEN q ELSE p
                IN /\ frame[w].err = ErrNone
                   /\ frame[l].err = ErrDriverNotAvailable
                   /\ orders[frame[w].oid].status = OrderAssigned
                   /\ orders[frame[w].oid].driverID = frame[w].did
                   /\ orders[frame[l].oid].status = OrderPending
                   /\ orders[frame[l].oid].driverID = ""
                   /\ drivers[frame[w].did].status = DriverBusy

C1_Witness ==
    \E p, q \in Procs :
        /\ SameDriverRace(p, q)
        /\ frame[p].err = ErrNone
        /\ frame[q].err = ErrDriverNotAvailable

\* the statements of a read's critical section
ReadInside == {"sDrivers", "sOrders", "gCopy", "runlock"}

\* C2: between the two writes of AssignOrderToDriver (the order is already
\* assigned, the driver not yet busy) the caller holds the mutex exclusively
\* and no read is inside its critical section.
C2_AssignWritesTogether ==
    \A a \in Procs :
        pc[a] = "aDriver" =>
            /\ orders[frame[a].oid].status = OrderAssigned
            /\ mu.writer = a
            /\ mu.readers = {}
            /\ \A r \in Procs \ {a} : pc[r] \notin ReadInside

C2_Witness ==
    \E a, r \in Procs :
        /\ pc[a] = "aDriver"
        /\ drivers[frame[a].did].status = DriverAvailable
        /\ pc[r] \in {"sRLock", "gRLock"}

\* p has returned a snapshot
SnapshotDone(p) == pc[p] = "done" /\ frame[p].op = "GetSnapshot"

\* the snapshot p returned shows order o assigned to a driver it shows available
ShowsAssignedToAvailable(p, o) ==
    /\ o \in DOMAIN frame[p].rorders
    /\ frame[p].rorders[o].status = OrderAssigned
    /\ frame[p].rorders[o].driverID \in DOMAIN frame[p].rdrivers
    /\ frame[p].rdrivers[frame[p].rorders[o].driverID].status = DriverAvailable

\* C3, as claimed: no returned snapshot shows an order assigned to a driver
\* that the same snapshot shows available.
C3_Original ==
    \A p \in Procs : SnapshotDone(p) => \A o \in OrderIDs : ~ShowsAssignedToAvailable(p, o)

\* u has written driver d as available through UpdateDriverStatus or
\* CreateOrUpdateDriver
WroteAvailable(u, d) ==
    /\ frame[u].op \in {"UpdateDriverStatus", "CreateOrUpdateDriver"}
    /\ frame[u].did = d
    /\ frame[u].status = DriverAvailable
    /\ frame[u].err = ErrNone
    /\ pc[u] \in {"unlock", "done"}

\* C3, amended: a returned snapshot shows an order assigned to an available
\* driver only when UpdateDriverStatus or CreateOrUpdateDriver has written
\* that driver as available; an assignment alone is never seen half done.
C3_Amended ==
    \A p \in Procs :
        SnapshotDone(p) =>
            \A o \in OrderIDs :
                ShowsAssignedToAvailable(p, o) =>
                    \E u \in Procs : WroteAvailable(u, frame[p].rorders[o].driverID)

C3_Witness ==
    \E p \in Procs, o \in OrderIDs :
        /\ SnapshotDone(p)
        /\ o \in DOMAIN frame[p].rorders
        /\ frame[p].rorders[o].status = OrderAssigned
        /\ frame[p].rdrivers[frame[p].rorders[o].driverID].status = DriverBusy
        /\ \E u \in Procs : pc[u] = "done" /\ frame[u].op = "UpdateDriverStatus"

\* the step is the UpdateOrderStatus(id, to) call whose response is ret'
IsUpdateOrderStatusStep(id, to) ==
    /\ clock' = clock
    /\ ret'.op = "UpdateOrderStatus"
    /\ ret'.id = id
    /\ ret'.arg = to

\* C4: on an existing order, UpdateOrderStatus with a recognized status
\* succeeds exactly on the six edges, setting the status and stamping
\* updatedAt and nothing else; on every other pair it returns
\* ErrInvalidTransition and leaves the orders as they were.
C4_UpdateOrderStatusGraph ==
    [][\A id \in OrderIDs, to \in OrderStatuses :
          (IsUpdateOrderStatusStep(id, to) /\ id \in DOMAIN orders) =>
              IF <<orders[id].status, to>> \in GraphEdges
              THEN /\ ret'.err = ErrNone
                   /\ orders' = [orders EXCEPT ![id].status = to, ![id].updatedAt = clock]
              ELSE /\ ret'.err = ErrInvalidTransition
                   /\ orders' = orders]_vars

C4_Witness ==
    /\ ret.op = "UpdateOrderStatus"
    /\ ret.err = ErrInvalidTransition
    /\ ret.id \in DOMAIN orders
    /\ orders[ret.id].status = OrderDelivered
    /\ orders[ret.id].updatedAt > orders[ret.id].createdAt

\* C5, as claimed: the status stored under an order ID changes only along an
\* edge of the graph.
C5_Original ==
    [][\A id \in DOMAIN orders :
          (id \in DOMAIN orders' /\ orders'[id].status # orders[id].status) =>
              <<orders[id].status, orders'[id].status>> \in GraphEdges]_vars

\* C5, amended: the status stored under an order ID changes only along an
\* edge of the graph, or because CreateOrder with that ID replaces the record
\* by a new pending one (from any status, terminal ones included).
C5_Amended ==
    [][\A id \in DOMAIN orders :
          (id \in DOMAIN orders' /\ orders'[id].status # orders[id].status) =>
                \/ <<orders[id].status, orders'[id].status>> \in GraphEdges
                \/ /\ orders'[id].status = OrderPending
                   /\ orders'[id].driverID = ""
                   /\ \E c \in Customers, s \in {"", OrderDelivered}, d \in DriverIDInputs :
                         CreateOrder(id, c, s, d)]_vars

C5_Witness ==
    \E id \in DOMAIN orders : orders[id].status = OrderDelivered

\* C6, as claimed: every order that is assigned, picked_up or delivered has a
\* non-empty driverID naming a stored driver.
C6_Original ==
    \A id \in DOMAIN orders :
        orders[id].status \in {OrderAssigned, OrderPickedUp, OrderDelivered} =>
            /\ orders[id].driverID # ""
            /\ orders[id].driverID \in DOMAIN drivers

\* C6, amended: every order whose driverID is non-empty is past pending and
\* its driverID names a stored driver; an order moved from pending to assigned
\* by UpdateOrderStatus is assigned (and later picked_up, delivered) with an
\* empty driverID.
C6_Amended ==
    \A id \in DOMAIN orders :
        orders[id].driverID # "" =>
            /\ orders[id].status # OrderPending
            /\ orders[id].driverID \in DOMAIN drivers

C6_Witness ==
    \E id \in DOMAIN orders :
        /\ orders[id].status = OrderDelivered
        /\ orders[id].driverID # ""

\* the orders that name driver d and are assigned or picked_up
OpenOrdersOf(ord, d) ==
    {id \in DOMAIN ord : ord[id].driverID = d /\ ord[id].status \in NonTerminal}

\* C7, as claimed: every busy driver is the driverID of an order that is
\* assigned or picked_up.
C7_Original ==
    \A d \in DOMAIN drivers :
        drivers[d].status = DriverBusy => OpenOrdersOf(orders, d) # {}

\* C7, amended: a driver becomes busy either by a status written from outside
\* (UpdateDriverStatus, CreateOrUpdateDriver) or by an assignment, and in that
\* case it is, right after the step, the driverID of an assigned order. (It
\* stays busy when that order is delivered, canceled or created again.)
C7_Amended ==
    [][\A d \in DOMAIN drivers' :
          (/\ drivers'[d].status = DriverBusy
           /\ (d \in DOMAIN drivers => drivers[d].status # DriverBusy)) =>
                \/ UpdateDriverStatus(d, DriverBusy)
                \/ \E n \in Names : CreateOrUpdateDriver(d, n, DriverBusy)
                \/ \E id \in DOMAIN orders' :
                      /\ orders'[id].driverID = d
                      /\ orders'[id].status = OrderAssigned
                      /\ orders[id].status = OrderPending]_vars

C7_Witness ==
    \E d \in DOMAIN drivers :
        /\ drivers[d].status = DriverBusy
        /\ OpenOrdersOf(orders, d) # {}

\* C8, as claimed: no driver is the driverID of two different orders that are
\* both assigned or picked_up.
C8_Original ==
    \A d \in DOMAIN drivers : Cardinality(OpenOrdersOf(orders, d)) <= 1

\* C8, amended: a step gives a driver one more open order only when that
\* driver is available before the step, and it is busy after it; so a driver
\* holds two open orders only after UpdateDriverStatus or CreateOrUpdateDriver
\* made it available again while its first order was still open.
C8_Amended ==
    [][\A d \in DOMAIN drivers :
          ~(OpenOrdersOf(orders', d) \subseteq OpenOrdersOf(orders, d)) =>
              /\ drivers[d].status = DriverAvailable
              /\ drivers'[d].status = DriverBusy
              /\ Cardinality(OpenOrdersOf(orders', d) \ OpenOrdersOf(orders, d)) = 1]_vars

C8_Witness ==
    \E d \in DOMAIN drivers :
        /\ drivers[d].status = DriverBusy
        /\ Cardinality(OpenOrdersOf(orders, d)) = 1
        /\ PendingIDs(orders) # {}

\* the step is iteration mI of the matcher's loop
IsMatchAssignStep == mPc = "loop" /\ <<mPc, mI>>' # <<mPc, mI>>

\* C9: a successful AssignOrderToDriver(orderID, driverID) leaves the order
\* assigned with driverID, the driver busy, and changes nothing else but the
\* two updatedAt stamps.
C9_AssignFrame ==
    [][(/\ IsMatchAssignStep
        /\ AssignOrderToDriverErr(drivers, orders, mPending[mI + 1], mAvail[mI + 1]) = ErrNone) =>
          LET o == mPending[mI + 1]
              d == mAvail[mI + 1]
          IN /\ orders'[o].status = OrderAssigned
             /\ orders'[o].driverID = d
             /\ drivers'[d].status = DriverBusy
             /\ \E t \in 0..MaxClock :
                   orders' = [orders EXCEPT ![o].status = OrderAssigned,
                                            ![o].driverID = d, ![o].updatedAt = t]
             /\ \E t \in 0..MaxClock :
                   drivers' = [drivers EXCEPT ![d].status = DriverBusy, ![d].updatedAt = t]]_vars

C9_Witness ==
    /\ mPc = "loop"
    /\ mI = 1
    /\ matched = 1
    /\ \E o \in DOMAIN orders :
          orders[o].status = OrderAssigned /\ orders[o].driverID = mAvail[1]

\* C10: AssignOrderToDriver returns a not-found error when the order or the
\* driver is not stored, ErrOrderAlreadyAssigned when the order is not
\* pending, ErrDriverNotAvailable when the driver is not available, nil only
\* when none of these holds; no step of a failing call changes the store.
C10_AssignFailures ==
    [][\A p \in Procs :
          /\ (pc[p] = "aCheck" /\ pc'[p] # "aCheck") =>
                LET o == frame[p].oid
                    d == frame[p].did
                    e == frame'[p].err
                    found == o \in DOMAIN orders /\ d \in DOMAIN drivers
                IN /\ ~found <=> e \in {ErrOrderNotFound, ErrDriverNotFound}
                   /\ e = ErrOrderNotFound => o \notin DOMAIN orders
                   /\ e = ErrDriverNotFound => d \notin DOMAIN drivers
                   /\ (found /\ orders[o].status # OrderPending) => e = ErrOrderAlreadyAssigned
                   /\ (found /\ orders[o].status = OrderPending
                             /\ drivers[d].status # DriverAvailable) => e = ErrDriverNotAvailable
                   /\ (found /\ orders[o].status = OrderPending
                             /\ drivers[d].status = DriverAvailable) => e = ErrNone
          /\ (frame'[p].op = "AssignOrderToDriver" /\ frame'[p].err # ErrNone
                /\ pc'[p] # pc[p]) => UNCHANGED <<drivers, orders>>]_vars

C10_Witness ==
    \E p \in Procs :
        /\ AssignDone(p)
        /\ frame[p].oid = MissingOrder
        /\ frame[p].did \in DriverIDs
        /\ frame[p].err = ErrOrderNotFound

\* the elements of a list
Range(s) == {s[i] : i \in 1..Len(s)}

Min(a, b) == IF a <= b THEN a ELSE b

\* the step is the last iteration of a tick's loop
IsTickEnd == mPc = "loop" /\ mPc' = "idle"

\* C11: a tick that runs with no store write in between reads all pending
\* orders and all available drivers, and leaves the first min(p, a) orders of
\* its list assigned, the i-th to the i-th driver of its list, these drivers
\* busy, the other orders pending and the other drivers available.
C11_TickAssignsMin ==
    [][/\ mPc = "drivers" => Range(mPending) = PendingIDs(orders)
       /\ (mPc = "loop" /\ mI = 0) =>
              /\ Range(mPending) = PendingIDs(orders)
              /\ Range(mAvail) = AvailableIDs(drivers)
       /\ IsTickEnd =>
              LET n == Min(Len(mPending), Len(mAvail))
              IN /\ \A i \in 1..n :
                       /\ orders'[mPending[i]].status = OrderAssigned
                       /\ orders'[mPending[i]].driverID = mAvail[i]
                       /\ drivers'[mAvail[i]].status = DriverBusy
                 /\ \A i \in (n + 1)..Len(mPending) :
                       orders'[mPending[i]].status = OrderPending
                 /\ \A i \in (n + 1)..Len(mAvail) :
                       drivers'[mAvail[i]].status = DriverAvailable
                 /\ Cardinality({o \in Range(mPending) : orders'[o].status = OrderAssigned}) = n
                 /\ Cardinality({orders'[o].driverID : o \in Range(mPending)} \ {""}) = n
                 /\ \A o \in DOMAIN orders' \ Range(mPending) : orders'[o] = orders[o]
                 /\ \A d \in DOMAIN drivers' \ Range(mAvail) : drivers'[d] = drivers[d]]_vars

C11_Witness ==
    /\ mPc = "idle"
    /\ \E o \in DOMAIN orders, q \in DOMAIN orders :
          /\ orders[o].status = OrderAssigned /\ orders[o].driverID # ""
          /\ orders[q].status = OrderPending
          /\ \A d \in DOMAIN drivers : drivers[d].status # DriverAvailable

\* the step is the handler of p's POST /drivers request writing its response
IsCreateDriverRespond(p) == pc[p] = "done" /\ pc'[p] = "responded"

\* C12, as claimed: the record a caller passed to CreateOrUpdateDriver is
\* its own; a later store mutation is not visible through it, so the status
\* the handler reads from it for the response is the status the call stored.
C12_CallerRecordIsOwn ==
    [][\A p \in Procs :
          IsCreateDriverRespond(p) =>
              frame'[p].rdrivers[frame[p].did].status = frame[p].status]_vars

\* C13: a goroutine that has returned from a read holds values of its own:
\* no pointer to a stored record, and no later step of another goroutine
\* changes the record it holds.
C13_ReadsReturnCopies ==
    [][\A p \in Procs :
          (/\ frame[p].op \in {"GetSnapshot", "GetOrder", "GetDriver"}
           /\ pc[p] = "done" /\ pc'[p] = "done") =>
              /\ frame[p].alias = ""
              /\ Held(p)' = Held(p)
              /\ frame'[p].rorders = frame[p].rorders]_vars

C13_Witness ==
    \E p \in Procs, d \in DriverIDs :
        /\ frame[p].op \in {"GetSnapshot", "GetDriver"}
        /\ pc[p] = "done"
        /\ d \in DOMAIN frame[p].rdrivers
        /\ frame[p].rdrivers[d].status # drivers[d].status

\* p is inside GetSnapshot, between RLock and RUnlock
InSnapshot(p) == frame[p].op = "GetSnapshot" /\ pc[p] \in {"sDrivers", "sOrders", "runlock"}

\* C14: the two mappings GetSnapshot returns are the store's contents at one
\* instant of the call: the store does not change from RLock to RUnlock, and
\* at RUnlock both copies equal the store.
C14_SnapshotConsistent ==
    [][\A p \in Procs :
          /\ (InSnapshot(p) /\ InSnapshot(p)') => UNCHANGED <<drivers, orders>>
          /\ (InSnapshot(p) /\ pc[p] = "runlock") =>
                 /\ frame[p].rdrivers = drivers
                 /\ frame[p].rorders = orders]_vars

C14_Witness ==
    \E p \in Procs :
        /\ InSnapshot(p)
        /\ pc[p] = "runlock"
        /\ \E o \in DOMAIN frame[p].rorders : frame[p].rorders[o].status = OrderAssigned
        /\ \E q \in Procs : pc[q] \in {"uLock", "cLock"}

\* C15, as claimed: the driverID stored under an order ID changes only from
\* empty to a driver's ID, by a successful AssignOrderToDriver; once non-empty
\* it is never cleared or replaced.
C15_Original ==
    [][\A id \in DOMAIN orders :
          (id \in DOMAIN orders' /\ orders'[id].driverID # orders[id].driverID) =>
              /\ orders[id].driverID = ""
              /\ IsMatchAssignStep]_vars

\* C15, amended: the driverID stored under an order ID changes from empty to
\* a stored driver's ID by a successful AssignOrderToDriver on the pending
\* order, or back to empty because CreateOrder with that ID replaces the
\* record; no other step changes it.
C15_Amended ==
    [][\A id \in DOMAIN orders :
          (id \in DOMAIN orders' /\ orders'[id].driverID # orders[id].driverID) =>
              \/ /\ orders[id].driverID = ""
                 /\ IsMatchAssignStep
                 /\ orders[id].status = OrderPending
                 /\ orders'[id].status = OrderAssigned
                 /\ orders'[id].driverID \in DOMAIN drivers
              \/ /\ orders'[id].driverID = ""
                 /\ orders'[id].status = OrderPending
                 /\ \E c \in Customers, st \in {"", OrderDelivered}, d \in DriverIDInputs :
                       CreateOrder(id, c, st, d)]_vars

C15_Witness ==
    \E id \in DOMAIN orders :
        /\ orders[id].status = OrderCanceled
        /\ orders[id].driverID # ""

\* the step is a call of op whose response is ret'
IsCall(op) == clock' = clock /\ ret'.op = op

\* C16: CreateOrder with a non-empty ID and customer returns nil and leaves,
\* under that ID, a pending order with an empty driverID, stamped now, whatever
\* the request carried and whatever was stored under the ID; with an empty ID
\* or customer it returns ErrMissingRequiredField and the orders are unchanged.
C16_CreateOrder ==
    [][IsCall("CreateOrder") =>
          LET id == ret'.id
              customer == ret'.arg
          IN IF id # "" /\ customer # ""
             THEN /\ ret'.err = ErrNone
                  /\ orders'[id] = [customer |-> customer, status |-> OrderPending,
                                    driverID |-> "", createdAt |-> clock,
                                    updatedAt |-> clock]
                  /\ DOMAIN orders' = DOMAIN orders \cup {id}
                  /\ \A o \in DOMAIN orders \ {id} : orders'[o] = orders[o]
             ELSE /\ ret'.err = ErrMissingRequiredField
                  /\ orders' = orders]_vars

C16_Witness ==
    /\ ret.op = "CreateOrder"
    /\ ret.err = ErrNone
    /\ DOMAIN orders = OrderIDs
    /\ orders[ret.id].status = OrderPending
    /\ orders[ret.id].createdAt >= 1
    /\ \E o \in OrderIDs : orders[o].status = OrderDelivered

\* what UpdateDriverStatus does on a stored driver, as C17 states it
UpdateDriverStatusAsClaimed ==
    (IsCall("UpdateDriverStatus") /\ ret'.id \in DOMAIN drivers) =>
        IF ret'.arg \in DriverStatuses
        THEN /\ ret'.err = ErrNone
             /\ drivers' = [drivers EXCEPT ![ret'.id].status = ret'.arg,
                                           ![ret'.id].updatedAt = clock]
        ELSE /\ ret'.err = ErrInvalidStatusUpdate
             /\ drivers' = drivers

\* C17, as claimed: with a status among available, busy, offline both
\* operations succeed and store that status, whatever the driver's status was;
\* with any other status string both return ErrInvalidStatusUpdate and leave
\* the drivers unchanged.
C17_Original ==
    [][/\ UpdateDriverStatusAsClaimed
       /\ (IsCall("CreateOrUpdateDriver") /\ ret'.id # "" /\ ret'.arg[1] # "") =>
              IF ret'.arg[2] \in DriverStatuses
              THEN /\ ret'.err = ErrNone
                   /\ drivers'[ret'.id].status = ret'.arg[2]
              ELSE /\ ret'.err = ErrInvalidStatusUpdate
                   /\ drivers' = drivers]_vars

\* C17, amended: as claimed, except that CreateOrUpdateDriver with the empty
\* status string does not fail: it succeeds and stores available.
C17_Amended ==
    [][/\ UpdateDriverStatusAsClaimed
       /\ (IsCall("CreateOrUpdateDriver") /\ ret'.id # "" /\ ret'.arg[1] # "") =>
              IF ret'.arg[2] \in DriverStatuses
              THEN /\ ret'.err = ErrNone
                   /\ drivers'[ret'.id].status = ret'.arg[2]
              ELSE IF ret'.arg[2] = ""
              THEN /\ ret'.err = ErrNone
                   /\ drivers'[ret'.id].status = DriverAvailable
              ELSE /\ ret'.err = ErrInvalidStatusUpdate
                   /\ drivers' = drivers]_vars

C17_Witness ==
    /\ ret.op = "UpdateDriverStatus"
    /\ ret.err = ErrInvalidStatusUpdate
    /\ ret.id \in DOMAIN drivers
    /\ drivers[ret.id].status = DriverOffline
    /\ \E d \in DOMAIN drivers : drivers[d].status = DriverBusy /\ drivers[d].updatedAt >= 1

\* C18: CreateOrUpdateDriver with an empty ID or name returns
\* ErrMissingRequiredField and leaves the drivers unchanged; when it succeeds
\* the record under the ID is the supplied name and status (available for the
\* empty status), stamped now, nothing of the record stored before is kept,
\* and no other driver changes.
C18_Upsert ==
    [][IsCall("CreateOrUpdateDriver") =>
          LET id == ret'.id
              name == ret'.arg[1]
              status == ret'.arg[2]
          IN /\ (id = "" \/ name = "") =>
                    /\ ret'.err = ErrMissingRequiredField
                    /\ drivers' = drivers
             /\ ret'.err = ErrNone =>
                    /\ id # "" /\ name # ""
                    /\ drivers'[id] = [name |-> name,
                                       status |-> IF status = "" THEN DriverAvailable
                                                  ELSE status,
                                       updatedAt |-> clock]
                    /\ DOMAIN drivers' = DOMAIN drivers \cup {id}
                    /\ \A d \in DOMAIN drivers \ {id} : drivers'[d] = drivers[d]]_vars

C18_Witness ==
    /\ ret.op = "CreateOrUpdateDriver"
    /\ ret.err = ErrNone
    /\ ret.arg[2] = ""
    /\ drivers[ret.id] = [name |-> "n2", status |-> DriverAvailable, updatedAt |-> 1]

\* C19, as claimed: with MATCHER_INTERVAL unset or not an integer, the
\* interval LoadConfig yields, which main passes to StartMatcher, is 3 seconds.
C19_DefaultInterval ==
    (ConfigLoaded /\ (ret.id = EnvUnset \/ ret.id \notin DOMAIN Atoi)) =>
        ret.arg = ScaleDuration(3, Second)

\* C20: whatever was written between a tick's reads and an assignment of its
\* loop, the assignment changes the store only if, at that step, the order is
\* pending and the paired driver available: then the order becomes assigned to
\* that driver and the driver busy; otherwise orders and drivers stay as they
\* are, and the loop goes on.
C20_StaleReadsTolerated ==
    [][IsMatchAssignStep =>
          LET o == mPending[mI + 1]
              d == mAvail[mI + 1]
          IN IF /\ o \in DOMAIN orders
                /\ d \in DOMAIN drivers
                /\ orders[o].status = OrderPending
                /\ drivers[d].status = DriverAvailable
             THEN /\ orders'[o].status = OrderAssigned
                  /\ orders'[o].driverID = d
                  /\ drivers'[d].status = DriverBusy
             ELSE UNCHANGED <<drivers, orders>>]_vars

C20_Witness ==
    /\ mPc = "loop"
    /\ mI = 1
    /\ matched = 0
    /\ orders[mPending[1]].status = OrderCanceled
    /\ orders[mPending[1]].driverID = ""
    /\ drivers[mAvail[1]].status = DriverAvailable

\* no element occurs twice in the list
Injective(s) == \A i, j \in 1..Len(s) : i # j => s[i] # s[j]

\* the step is an assignment of the tick's loop that returned an error
IsFailedMatchAssign ==
    /\ IsMatchAssignStep
    /\ AssignOrderToDriverErr(drivers, orders, mPending[mI + 1], mAvail[mI + 1]) # ErrNone

\* C21: a failed assignment of pair i does not end the tick: while a pair
\* i+1 exists the loop goes on to it with the same two lists; no order and no
\* driver occurs twice in the lists, so the failed ones are not paired again
\* in this tick; and the next tick's first read takes every order that is
\* pending then.
C21_TickContinues ==
    [][/\ IsFailedMatchAssign =>
              /\ UNCHANGED <<drivers, orders>>
              /\ (mI + 1 < Min(Len(mPending), Len(mAvail))) =>
                     /\ mPc' = "loop"
                     /\ mI' = mI + 1
                     /\ UNCHANGED <<mPending, mAvail>>
              /\ (mI + 1 >= Min(Len(mPending), Len(mAvail))) => mPc' = "idle"
       /\ Injective(mPending) /\ Injective(mAvail)
       /\ (mPc = "idle" /\ mPc' # "idle") => Range(mPending') = PendingIDs(orders)]_vars

C21_Witness ==
    /\ mPc = "loop"
    /\ mI = 1
    /\ matched = 0
    /\ orders[mPending[1]].status = OrderAssigned
    /\ orders[mPending[2]].status = OrderPending
    /\ drivers[mAvail[2]].status = DriverAvailable

\* a step of the matcher goroutine
MatcherStep == MatchReadPending \/ MatchReadAvailable \/ MatchAssign

\* a pending order and an available driver are both in the store
PendingAndAvailable ==
    /\ \E o \in DOMAIN orders : orders[o].status = OrderPending
    /\ \E d \in DOMAIN drivers : drivers[d].status = DriverAvailable

\* C22: if from some point on only the matcher changes the store, then from
\* some point on the store never again holds a pending order together with
\* an available driver.
C22_EventualMatching == <>[][MatcherStep]_vars => <>[]~PendingAndAvailable

C22_Witness ==
    /\ mPc = "idle"
    /\ DOMAIN orders = OrderIDs
    /\ \A o \in OrderIDs : orders[o].status = OrderAssigned /\ orders[o].driverID # ""
    /\ \A d \in DOMAIN drivers : drivers[d].status = DriverBusy

\* the step is a step of the matcher goroutine
IsTickStep == matcherVars' # matcherVars

\* C23: a step of a tick that changes the store turns one pending order into
\* an order assigned to a driver and that driver, available before, into a busy
\* one, stamping both; it changes nothing else, and no record appears or
\* disappears.
C23_TickOnlyAssigns ==
    [][(IsTickStep /\ <<drivers, orders>>' # <<drivers, orders>>) =>
          \E o \in DOMAIN orders, d \in DOMAIN drivers :
              /\ mPc = "loop"
              /\ orders[o].status = OrderPending
              /\ drivers[d].status = DriverAvailable
              /\ orders' = [orders EXCEPT ![o].status = OrderAssigned,
                                          ![o].driverID = d,
                                          ![o].updatedAt = clock]
              /\ drivers' = [drivers EXCEPT ![d].status = DriverBusy,
                                            ![d].updatedAt = clock]]_vars

C23_Witness ==
    /\ mPc = "idle"
    /\ \E o \in DOMAIN orders :
          /\ orders[o].status = OrderAssigned
          /\ orders[o].driverID \in DOMAIN drivers
          /\ drivers[orders[o].driverID].status = DriverBusy
          /\ \E q \in DOMAIN orders : orders[q].status = OrderCanceled /\ orders[q].driverID = ""
          /\ \E d \in DOMAIN drivers : drivers[d].status = DriverOffline

\* C24: a tick whose list of pending orders or of available drivers is empty
\* returns after its second read without having changed the store; the loop,
\* where AssignOrderToDriver is called, is entered only with both lists
\* non-empty.
C24_EmptyListsDoNothing ==
    [][/\ (IsTickStep /\ mPc = "drivers") =>
              IF Len(mPending) = 0 \/ AvailableIDs(drivers) = {}
              THEN mPc' = "idle" /\ UNCHANGED <<drivers, orders>>
              ELSE mPc' = "loop"
       /\ (IsTickStep /\ mPc = "idle") => UNCHANGED <<drivers, orders>>
       /\ mPc = "loop" => (Len(mPending) > 0 /\ Len(mAvail) > 0)]_vars

C24_Witness ==
    /\ mPc = "drivers"
    /\ Len(mPending) = 2
    /\ DOMAIN drivers = DriverIDs
    /\ AvailableIDs(drivers) = {}

\* p is inside the critical section of a write operation
InWrite(p) ==
    pc[p] \in {"aCheck", "aOrder", "aDriver", "uWrite", "cWrite", "oWrite", "nWrite", "unlock"}

\* p is inside the critical section of a read operation
InRead(p) == pc[p] \in {"sDrivers", "sOrders", "gCopy", "runlock"}

\* C25: while a goroutine is inside the critical section of a write
\* operation, no other goroutine is inside the critical section of any store
\* operation, on either map; the store changes only in steps of the goroutine
\* that holds the lock as writer.
C25_WritersExclude ==
    [][/\ \A p, q \in Procs :
             (p # q /\ InWrite(p)) => (~InWrite(q) /\ ~InRead(q))
       /\ \A p \in Procs : InWrite(p) <=> mu.writer = p
       /\ <<drivers, orders>>' # <<drivers, orders>> =>
             \E p \in Procs : InWrite(p) /\ pc'[p] # pc[p]]_vars

C25_Witness ==
    /\ InRead("p2") /\ InRead("p3")
    /\ pc["p1"] \in {"aLock", "oLock", "uLock", "nLock"}

\* p holds the mutex, as writer or as reader
Holds(p) == mu.writer = p \/ p \in mu.readers

\* C26: a goroutine takes the mutex only when it does not hold it, has given
\* it up whenever it has returned, on the error returns as well, and every
\* call that was made returns.
C26_EveryCallReturns ==
    /\ [][\A p \in Procs :
             /\ (~Holds(p) /\ Holds(p)') => pc[p] \in {"aLock", "uLock", "cLock", "oLock",
                                                       "nLock", "sRLock", "gRLock"}
             /\ pc[p] \in {"idle", "done"} => ~Holds(p)]_vars
    /\ \A p \in Procs : (pc[p] # "idle") ~> (pc[p] = "done")

C26_Witness ==
    /\ \A p \in Procs : pc[p] = "done"
    /\ mu = MuFree
    /\ frame["p1"].err = ErrOrderNotFound
    /\ frame["p2"].err = ErrInvalidTransition

\* p and q raced for one pending order with two different drivers that were
\* available (under SpecAssign a driver that is not offline started
\* available, and every stored order started pending)
SameOrderRace(p, q) ==
    /\ p # q
    /\ AssignDone(p)
    /\ AssignDone(q)
    /\ frame[p].oid = frame[q].oid
    /\ frame[p].oid \in OrderIDs
    /\ frame[p].did # frame[q].did
    /\ frame[p].did \in DriverIDs
    /\ frame[q].did \in DriverIDs
    /\ drivers[frame[p].did].status # DriverOffline
    /\ drivers[frame[q].did].status # DriverOffline

\* C27: two concurrent AssignOrderToDriver calls for the same pending order
\* and two different available drivers: exactly one returns nil, the other
\* ErrOrderAlreadyAssigned; the order is assigned to the winner's driver, which
\* is busy, and the loser's driver is still available.
C27_SameOrderRace ==
    \A p, q \in Procs :
        SameOrderRace(p, q) =>
            \E w \in {p, q} :
                LET l == IF w = p THEN q ELSE p
                IN /\ frame[w].err = ErrNone
                   /\ frame[l].err = ErrOrderAlreadyAssigned
                   /\ orders[frame[w].oid].status = OrderAssigned
                   /\ orders[frame[w].oid].driverID = frame[w].did
                   /\ drivers[frame[w].did].status = DriverBusy
                   /\ drivers[frame[l].did].status = DriverAvailable

C27_Witness ==
    \E p, q \in Procs :
        /\ SameOrderRace(p, q)
        /\ frame[p].err = ErrNone
        /\ frame[q].err = ErrOrderAlreadyAssigned

\* the step is a step of p inside an UpdateOrderStatus call
IsUpdateOrderStatusOf(p) == frame[p].op = "UpdateOrderStatus" /\ pc'[p] # pc[p]

\* C28: a step of an UpdateOrderStatus call changes no driver; the call
\* changes, when it returns nil, the status and the updatedAt of its order and
\* nothing else (the driverID stays), and nothing when it returns an error.
C28_UpdateOrderStatusFrame ==
    [][\A p \in Procs :
          IsUpdateOrderStatusOf(p) =>
              /\ drivers' = drivers
              /\ IF pc[p] = "oWrite" /\ frame'[p].err = ErrNone
                 THEN orders' = [orders EXCEPT ![frame[p].oid].status = frame[p].status,
                                               ![frame[p].oid].updatedAt = clock]
                 ELSE orders' = orders]_vars

C28_Witness ==
    \E p \in Procs :
        /\ frame[p].op = "UpdateOrderStatus"
        /\ pc[p] = "done"
        /\ frame[p].err = ErrNone
        /\ orders[frame[p].oid].status = OrderCanceled
        /\ orders[frame[p].oid].driverID \in DOMAIN drivers
        /\ drivers[orders[frame[p].oid].driverID].status = DriverBusy

\* C29: AssignOrderToDriver reports the first failure in this order: order
\* not stored, driver not stored, order not pending, driver not available.
C29_ErrorOrder ==
    [][\A p \in Procs :
          (pc[p] = "aCheck" /\ pc'[p] # "aCheck") =>
              LET o == frame[p].oid
                  d == frame[p].did
              IN frame'[p].err =
                    CASE o \notin DOMAIN orders -> ErrOrderNotFound
                      [] o \in DOMAIN orders /\ d \notin DOMAIN drivers -> ErrDriverNotFound
                      [] o \in DOMAIN orders /\ d \in DOMAIN drivers
                            /\ orders[o].status # OrderPending -> ErrOrderAlreadyAssigned
                      [] o \in DOMAIN orders /\ d \in DOMAIN drivers
                            /\ orders[o].status = OrderPending
                            /\ drivers[d].status # DriverAvailable -> ErrDriverNotAvailable
                      [] OTHER -> ErrNone]_vars

C29_Witness ==
    /\ \E p \in Procs :
          /\ AssignDone(p)
          /\ frame[p].oid = MissingOrder
          /\ frame[p].did = MissingDriver
          /\ frame[p].err = ErrOrderNotFound
    /\ \E q \in Procs :
          /\ AssignDone(q)
          /\ frame[q].oid \in OrderIDs
          /\ frame[q].did \in DriverIDs
          /\ orders[frame[q].oid].status = OrderPending
          /\ drivers[frame[q].did].status = DriverOffline
          /\ frame[q].err = ErrDriverNotAvailable

\* the number of pairs the tick's two lists give
Pairs == Min(Len(mPending), Len(mAvail))

\* C30: a tick's loop makes one AssignOrderToDriver call for each index below
\* min(p, a), p and a the lengths of the two lists it read: it stands at an
\* index below that number, goes on to the next index while one exists and
\* returns otherwise; the lists do not change after they were read, whatever is
\* written to the store meanwhile, and hold no ID twice; call i changes no
\* order and no driver but the i-th of each list; the successes counted never
\* exceed the calls made.
C30_TickCallCount ==
    [][/\ mPc = "loop" => (mI < Pairs /\ matched <= mI)
       /\ Injective(mPending) /\ Injective(mAvail)
       /\ IsMatchAssignStep =>
              /\ IF mI + 1 < Pairs
                 THEN mPc' = "loop" /\ mI' = mI + 1 /\ UNCHANGED <<mPending, mAvail>>
                 ELSE mPc' = "idle"
              /\ \A o \in DOMAIN orders' \ {mPending[mI + 1]} :
                    o \in DOMAIN orders /\ orders'[o] = orders[o]
              /\ \A d \in DOMAIN drivers' \ {mAvail[mI + 1]} :
                    d \in DOMAIN drivers /\ drivers'[d] = drivers[d]
       /\ (mPc = "loop" /\ ~IsMatchAssignStep) => UNCHANGED <<mPending, mAvail, mI>>
       /\ (mPc = "drivers" /\ mPc' # "idle") => mPending' = mPending]_vars

C30_Witness ==
    /\ mPc = "loop"
    /\ Len(mPending) = 1
    /\ Len(mAvail) = 1
    /\ \E o \in DOMAIN orders : o # mPending[1] /\ orders[o].status = OrderPending
    /\ \E d \in DOMAIN drivers : d # mAvail[1] /\ drivers[d].status = DriverAvailable
====
